---- MODULE Spec2Model ----
(***************************************************************************)
(* VoiceGuard (app.py): the forensic engine analyze_audio_forensics and    *)
(* the Streamlit script around it (upload -> temp_file.wav -> analyze ->   *)
(* verdict).                                                               *)
(*                                                                         *)
(* A waveform is represented by what the library calls of the engine       *)
(* return for it: its sampling rate, its number of samples, the per-bin    *)
(* STFT energy, the per-frame RMS and the number of zero crossings.  The   *)
(* engine's own arithmetic (cumsum, searchsorted against 0.99 * total,     *)
(* bin -> Hz, the three threshold tests, the clamp, the verdict) is        *)
(* modelled exactly, over integers: RMS is counted in units of 1e-7,       *)
(* a bin frequency i * sr / n_fft is kept as the fraction it is.           *)
(***************************************************************************)
EXTENDS Integers, Sequences, FiniteSets

VARIABLES
    file,           \* content of "temp_file.wav": <<>> (truncated) or <<audio>>
    uploaded_file,  \* per session: the audio in st.file_uploader
    button,         \* per session: this script run was started by the button
    pc,             \* per session: position in the script
    y,              \* per session: the waveform librosa.load returned
    threshold_idx,  \* per session: local of analyze_audio_forensics
    ai_score,       \* per session: local of analyze_audio_forensics
    evidence,       \* per session: local of analyze_audio_forensics
    score,          \* per session: first component of the returned tuple
    verdict         \* per session: what st.error / st.success displayed

vars == <<file, uploaded_file, button, pc, y, threshold_idx, ai_score,
          evidence, score, verdict>>

----------------------------------------------------------------------------
(* Bounds of the model *)

\* n_fft / 2: the spectrum has HalfBins + 1 bins (librosa: 1024, 1025 bins)
HalfBins == 3
\* the longest waveform, in samples
MaxSamples == 25
\* a per-bin energy large enough for 1% of the total to matter
BigEnergy == 200
\* concurrent browser sessions
NumSessions == 2

----------------------------------------------------------------------------
(* Program constants *)

HardCutoffHz == 14000
SuspiciousCutoffHz == 21000
HardCutoffPenalty == 50
SuspiciousPenalty == 20
\* total_energy * 0.99
EnergyPct == 99
\* 0.000001, in units of 1e-7
SilenceFloor == 10
SilencePenalty == 35
\* 0.04 = JitterFloorNum / 100
JitterFloorNum == 4
JitterPenalty == 25
MaxScore == 100
VerdictThreshold == 50

----------------------------------------------------------------------------
(* Inputs *)

NumBins == HalfBins + 1
NFFT == 2 * HalfBins

SampleRates == {8000, 27999, 28000, 41999, 42000, 48000}
EnergyLevels == {0, 1, BigEnergy}
RmsLevels == {0, SilenceFloor - 1, SilenceFloor}

\* zero_crossings(y, pad=False)[0] is False, so at most n - 1 crossings; the
\* variance c(n-c)/n^2 is unimodal in c, so the counts next to both ends are kept
CrossingCounts(n) == {c \in 0..(n - 1) : c <= 2 \/ c >= n - 2}

ZeroVector == [i \in 1..NumBins |-> 0]

\* a decoded file of zero frames: librosa.load returns an empty array and sr
EmptyAudios ==
    [sr : SampleRates, n : {0}, crossings : {0}, energy : {ZeroVector},
     rms : {<<0>>}]

NonEmptyAudios ==
    UNION {[sr : SampleRates, n : {len}, crossings : CrossingCounts(len),
            energy : [1..NumBins -> EnergyLevels],
            rms : [1..2 -> RmsLevels]] : len \in {1, MaxSamples}}

Audios == EmptyAudios \cup NonEmptyAudios

NoAudio == [sr |-> 0, n |-> 0, crossings |-> 0, energy |-> <<>>, rms |-> <<>>]

\* the uploads of the concurrent sessions: a full-band recording, a band-limited
\* one and digital silence, all at 48 kHz
ConcAudios ==
    {[sr |-> 48000, n |-> MaxSamples, crossings |-> 2,
      energy |-> [i \in 1..NumBins |-> 1], rms |-> <<SilenceFloor, SilenceFloor>>],
     [sr |-> 48000, n |-> MaxSamples, crossings |-> 2,
      energy |-> [i \in 1..NumBins |-> IF i = 1 THEN BigEnergy ELSE 0],
      rms |-> <<SilenceFloor, SilenceFloor>>],
     [sr |-> 48000, n |-> MaxSamples, crossings |-> 0,
      energy |-> ZeroVector, rms |-> <<0, 0>>]}

----------------------------------------------------------------------------
(* The numpy / librosa helpers the engine calls *)

RECURSIVE SumTo(_, _)
SumTo(a, k) == IF k = 0 THEN 0 ELSE a[k] + SumTo(a, k - 1)

\* np.cumsum
CumSum(a) == [i \in 1..Len(a) |-> SumTo(a, i)]

\* variant: side='right', the 0-based index of the first element > num / den
SearchSortedRight(a, num, den) ==
    IF \E i \in 1..Len(a) : a[i] * den > num
    THEN (CHOOSE i \in 1..Len(a) :
              /\ a[i] * den > num
              /\ \A j \in 1..(i - 1) : ~(a[j] * den > num)) - 1
    ELSE Len(a)

\* np.searchsorted(a, num / den) with side='left': the 0-based index of the first
\* element >= num / den, len(a) when there is none
SearchSorted(a, num, den) ==
    IF \E i \in 1..Len(a) : a[i] * den >= num
    THEN (CHOOSE i \in 1..Len(a) :
              /\ a[i] * den >= num
              /\ \A j \in 1..(i - 1) : a[j] * den < num) - 1
    ELSE Len(a)

\* variant: bins spread over 0..sr instead of 0..sr/2
FftFrequencyFullBand(sr, i) == [num |-> 2 * i * sr, den |-> NFFT]

\* librosa.fft_frequencies(sr=sr)[i] = i * sr / n_fft, as numerator and denominator
FftFrequency(sr, i) == [num |-> i * sr, den |-> NFFT]

\* cutoff_freq < hz
Below(f, hz) == f.num < hz * f.den

\* int(cutoff_freq)
IntHz(f) == f.num \div f.den

\* np.min
MinOf(a) == CHOOSE m \in {a[i] : i \in 1..Len(a)} :
                \A i \in 1..Len(a) : m <= a[i]

\* np.var(zero_crossings) < 0.04 for a boolean array of n entries, c of them True:
\* the variance is c(n-c)/n^2; of an empty array it is nan, and nan < 0.04 is False
TooSmooth(n, c) == n > 0 /\ 100 * c * (n - c) < JitterFloorNum * n * n

\* what the library calls do with an empty waveform depends on the librosa
\* version (padding an empty array either works or raises)
MayRaise(a) == IF a.n = 0 THEN BOOLEAN ELSE {FALSE}

----------------------------------------------------------------------------
(* The engine's decisions *)

Min(a, b) == IF a <= b THEN a ELSE b

\* variant: the tier boundaries compared with <= instead of <
FreqPenaltyInclusive(f) ==
    IF f.num <= HardCutoffHz * f.den THEN HardCutoffPenalty
    ELSE IF f.num <= SuspiciousCutoffHz * f.den THEN SuspiciousPenalty
    ELSE 0

\* TEST 1: the tier of cutoff_freq
FreqPenalty(f) ==
    IF Below(f, HardCutoffHz) THEN HardCutoffPenalty
    ELSE IF Below(f, SuspiciousCutoffHz) THEN SuspiciousPenalty
    ELSE 0

FreqEvidence(f) ==
    IF Below(f, HardCutoffHz) THEN <<"HardFrequencyCutoff", IntHz(f)>>
    ELSE IF Below(f, SuspiciousCutoffHz) THEN <<"SuspiciousFrequencyDrop", IntHz(f)>>
    ELSE <<"FullFrequencyRange", IntHz(f)>>

\* threshold_idx = np.searchsorted(cumulative_energy, total_energy * 0.99)
ThresholdIdx(energy) ==
    LET cumulative_energy == CumSum(energy)
        total_energy == cumulative_energy[Len(cumulative_energy)]
    IN  SearchSorted(cumulative_energy, total_energy * EnergyPct, 100)

\* TEST 2: min_silence < 0.000001
DigitalSilence(rms) == MinOf(rms) < SilenceFloor

SilenceEvidence(rms) ==
    IF DigitalSilence(rms) THEN <<"DigitalSilence">> ELSE <<"NaturalBackgroundNoise">>

\* variant: return ai_score
Unclamped(s) == s

\* return min(ai_score, 100)
Clamp(s) == Min(s, MaxScore)

\* variant: score >= 50
VerdictInclusive(s) ==
    IF s >= VerdictThreshold THEN [label |-> "SYNTHETIC", confidence |-> s]
    ELSE [label |-> "HUMAN", confidence |-> 100 - s]

\* the verdict shown for a score: score > 50
Verdict(s) ==
    IF s > VerdictThreshold THEN [label |-> "SYNTHETIC", confidence |-> s]
    ELSE [label |-> "HUMAN", confidence |-> 100 - s]

NoVerdict == [label |-> "none", confidence |-> 0]

----------------------------------------------------------------------------
(* The script, one session r at a time *)

\* a script run starts with fresh locals and a cleared page
FreshRun(r) ==
    /\ y' = [y EXCEPT ![r] = NoAudio]
    /\ threshold_idx' = [threshold_idx EXCEPT ![r] = 0]
    /\ ai_score' = [ai_score EXCEPT ![r] = 0]
    /\ evidence' = [evidence EXCEPT ![r] = <<>>]
    /\ score' = [score EXCEPT ![r] = 0]
    /\ verdict' = [verdict EXCEPT ![r] = NoVerdict]

\* the user picks a file in st.file_uploader (a session that holds none yet,
\* pc[r] = "idle"): the script reruns, button not pressed
Upload(r, a) ==
    /\ uploaded_file' = [uploaded_file EXCEPT ![r] = a]
    /\ button' = [button EXCEPT ![r] = FALSE]
    /\ pc' = [pc EXCEPT ![r] = "open"]
    /\ FreshRun(r)
    /\ UNCHANGED file

\* the user presses "ANALYZE AUDIO SOURCE": the script reruns, button pressed
Click(r) ==
    /\ pc[r] \in {"wait", "shown", "decode_error", "library_error", "index_error"}
    /\ button' = [button EXCEPT ![r] = TRUE]
    /\ pc' = [pc EXCEPT ![r] = "open"]
    /\ FreshRun(r)
    /\ UNCHANGED <<file, uploaded_file>>

\* open("temp_file.wav", "wb") truncates the one file every session uses
OpenFile(r) ==
    /\ pc[r] = "open"
    /\ file' = <<>>
    /\ pc' = [pc EXCEPT ![r] = "write"]
    /\ UNCHANGED <<uploaded_file, button, y, threshold_idx, ai_score, evidence,
                   score, verdict>>

\* f.write(uploaded_file.getbuffer()) and the close of the with block (the
\* buffer lands as a whole: the last writer's content is the file's); then
\* st.audio, and the button test
WriteFile(r) ==
    /\ pc[r] = "write"
    /\ file' = <<uploaded_file[r]>>
    /\ pc' = [pc EXCEPT ![r] = IF button[r] THEN "load" ELSE "wait"]
    /\ UNCHANGED <<uploaded_file, button, y, threshold_idx, ai_score, evidence,
                   score, verdict>>

\* y, sr = librosa.load(audio_path, sr=None); ai_score = 0; evidence = []
Load(r) ==
    /\ pc[r] = "load"
    /\ IF file = <<>>
       THEN /\ pc' = [pc EXCEPT ![r] = "decode_error"]
            /\ UNCHANGED <<y, ai_score, evidence>>
       ELSE /\ y' = [y EXCEPT ![r] = file[1]]
            /\ ai_score' = [ai_score EXCEPT ![r] = 0]
            /\ evidence' = [evidence EXCEPT ![r] = <<>>]
            /\ pc' = [pc EXCEPT ![r] = "test1"]
    /\ UNCHANGED <<file, uploaded_file, button, threshold_idx, score, verdict>>

\* TEST 1: FREQUENCY CUTOFF CHECK
Test1(r) ==
    /\ pc[r] = "test1"
    /\ \E raises \in MayRaise(y[r]) :
        IF raises
        THEN /\ pc' = [pc EXCEPT ![r] = "library_error"]
             /\ UNCHANGED <<threshold_idx, ai_score, evidence>>
        ELSE LET idx == ThresholdIdx(y[r].energy)
                 cutoff_freq == FftFrequency(y[r].sr, idx)
             IN  /\ threshold_idx' = [threshold_idx EXCEPT ![r] = idx]
                 /\ IF idx >= NumBins
                    THEN /\ pc' = [pc EXCEPT ![r] = "index_error"]
                         /\ UNCHANGED <<ai_score, evidence>>
                    ELSE /\ ai_score' = [ai_score EXCEPT ![r] = @ + FreqPenalty(cutoff_freq)]
                         /\ evidence' = [evidence EXCEPT ![r] = Append(@, FreqEvidence(cutoff_freq))]
                         /\ pc' = [pc EXCEPT ![r] = "test2"]
    /\ UNCHANGED <<file, uploaded_file, button, y, score, verdict>>

\* TEST 2: SILENCE PATTERN ANALYSIS
Test2(r) ==
    /\ pc[r] = "test2"
    /\ \E raises \in MayRaise(y[r]) :
        IF raises
        THEN /\ pc' = [pc EXCEPT ![r] = "library_error"]
             /\ UNCHANGED <<ai_score, evidence>>
        ELSE /\ ai_score' = [ai_score EXCEPT ![r] =
                    IF DigitalSilence(y[r].rms) THEN @ + SilencePenalty ELSE @]
             /\ evidence' = [evidence EXCEPT ![r] = Append(@, SilenceEvidence(y[r].rms))]
             /\ pc' = [pc EXCEPT ![r] = "test3"]
    /\ UNCHANGED <<file, uploaded_file, button, y, threshold_idx, score, verdict>>

\* variant: ai_score = 25 instead of ai_score += 25
JitterScoreAssigned(s, smooth) == IF smooth THEN JitterPenalty ELSE s

\* TEST 3: ai_score += 25 when zc_variation < 0.04
JitterScore(s, smooth) == IF smooth THEN s + JitterPenalty ELSE s

\* variant: an evidence item on the passing branch too
JitterEvidenceBothWays(ev, smooth) ==
    IF smooth THEN Append(ev, <<"TooSmooth">>) ELSE Append(ev, <<"OrganicJitter">>)

\* TEST 3: one evidence item when the penalty fires, none otherwise
JitterEvidence(ev, smooth) ==
    IF smooth THEN Append(ev, <<"TooSmooth">>) ELSE ev

\* TEST 3: DISPERSION / JITTER
Test3(r) ==
    /\ pc[r] = "test3"
    /\ \E raises \in MayRaise(y[r]) :
        IF raises
        THEN /\ pc' = [pc EXCEPT ![r] = "library_error"]
             /\ UNCHANGED <<ai_score, evidence>>
        ELSE LET smooth == TooSmooth(y[r].n, y[r].crossings)
             IN  /\ ai_score' = [ai_score EXCEPT ![r] = JitterScore(@, smooth)]
                 /\ evidence' = [evidence EXCEPT ![r] = JitterEvidence(@, smooth)]
                 /\ pc' = [pc EXCEPT ![r] = "return"]
    /\ UNCHANGED <<file, uploaded_file, button, y, threshold_idx, score, verdict>>

\* return min(ai_score, 100), evidence, y, sr
Return(r) ==
    /\ pc[r] = "return"
    /\ score' = [score EXCEPT ![r] = Clamp(ai_score[r])]
    /\ pc' = [pc EXCEPT ![r] = "verdict"]
    /\ UNCHANGED <<file, uploaded_file, button, y, threshold_idx, ai_score,
                   evidence, verdict>>

\* SHOW VERDICT
ShowVerdict(r) ==
    /\ pc[r] = "verdict"
    /\ verdict' = [verdict EXCEPT ![r] = Verdict(score[r])]
    /\ pc' = [pc EXCEPT ![r] = "shown"]
    /\ UNCHANGED <<file, uploaded_file, button, y, threshold_idx, ai_score,
                   evidence, score>>

----------------------------------------------------------------------------
(* Specifications *)

InitFor(S) ==
    /\ file = <<>>
    /\ uploaded_file = [r \in S |-> NoAudio]
    /\ button = [r \in S |-> FALSE]
    /\ pc = [r \in S |-> "idle"]
    /\ y = [r \in S |-> NoAudio]
    /\ threshold_idx = [r \in S |-> 0]
    /\ ai_score = [r \in S |-> 0]
    /\ evidence = [r \in S |-> <<>>]
    /\ score = [r \in S |-> 0]
    /\ verdict = [r \in S |-> NoVerdict]

\* one session, any audio
Solo == {1}

Init == InitFor(Solo)

Next ==
    \/ \E r \in Solo : pc[r] = "idle" /\ \E a \in Audios : Upload(r, a)
    \/ \E r \in Solo : Click(r)
    \/ \E r \in Solo : OpenFile(r)
    \/ \E r \in Solo : WriteFile(r)
    \/ \E r \in Solo : Load(r)
    \/ \E r \in Solo : Test1(r)
    \/ \E r \in Solo : Test2(r)
    \/ \E r \in Solo : Test3(r)
    \/ \E r \in Solo : Return(r)
    \/ \E r \in Solo : ShowVerdict(r)

Spec == Init /\ [][Next]_vars

\* NumSessions sessions of the one server process, sharing its working directory
Concurrent == 1..NumSessions

InitConc == InitFor(Concurrent)

NextConc ==
    \/ \E r \in Concurrent : pc[r] = "idle" /\ \E a \in ConcAudios : Upload(r, a)
    \/ \E r \in Concurrent : Click(r)
    \/ \E r \in Concurrent : OpenFile(r)
    \/ \E r \in Concurrent : WriteFile(r)
    \/ \E r \in Concurrent : Load(r)
    \/ \E r \in Concurrent : Test1(r)
    \/ \E r \in Concurrent : Test2(r)
    \/ \E r \in Concurrent : Test3(r)
    \/ \E r \in Concurrent : Return(r)
    \/ \E r \in Concurrent : ShowVerdict(r)

SpecConc == InitConc /\ [][NextConc]_vars

\* the verdict display as a function of the score: every score the clamp allows
InitVerdict ==
    /\ file = <<>>
    /\ uploaded_file = [r \in Solo |-> NoAudio]
    /\ button = [r \in Solo |-> TRUE]
    /\ pc = [r \in Solo |-> "verdict"]
    /\ y = [r \in Solo |-> NoAudio]
    /\ threshold_idx = [r \in Solo |-> 0]
    /\ ai_score = [r \in Solo |-> 0]
    /\ evidence = [r \in Solo |-> <<>>]
    /\ score \in [Solo -> 0..MaxScore]
    /\ verdict = [r \in Solo |-> NoVerdict]

NextVerdict == \E r \in Solo : ShowVerdict(r)

SpecVerdict == InitVerdict /\ [][NextVerdict]_vars

----------------------------------------------------------------------------
(* What the engine returns for an audio, as one expression *)

Sessions == DOMAIN pc

CutoffFreqOf(a) == FftFrequency(a.sr, ThresholdIdx(a.energy))

\* the unclamped sum of the three penalties
PenaltySum(a) ==
    FreqPenalty(CutoffFreqOf(a))
    + (IF DigitalSilence(a.rms) THEN SilencePenalty ELSE 0)
    + (IF TooSmooth(a.n, a.crossings) THEN JitterPenalty ELSE 0)

EvidenceOf(a) ==
    JitterEvidence(<<FreqEvidence(CutoffFreqOf(a)), SilenceEvidence(a.rms)>>,
                   TooSmooth(a.n, a.crossings))

IsPrefix(s, t) == Len(s) <= Len(t) /\ \A i \in 1..Len(s) : s[i] = t[i]

\* positions of the script at which TEST 1 has completed
AfterTest1 == {"test2", "test3", "return", "verdict", "shown"}
\* positions at which analyze_audio_forensics has returned
Returned == {"verdict", "shown"}

----------------------------------------------------------------------------
(* Claims *)

\* C1: for every combination of detector outcomes the returned score is the sum
\* of the three penalties (50/20/0, 35/0, 25/0) clamped to 100, so it lies in
\* 0..100; when all three fire (110) the returned score is 100.
C1_ScoreIsClampedSum ==
    \A r \in Sessions :
        pc[r] \in Returned =>
            LET f == Len(evidence[r]) >= 1 /\ evidence[r][1][1] = "HardFrequencyCutoff"
                g == Len(evidence[r]) >= 1 /\ evidence[r][1][1] = "SuspiciousFrequencyDrop"
                d == Len(evidence[r]) >= 2 /\ evidence[r][2][1] = "DigitalSilence"
                j == Len(evidence[r]) >= 3
                sum == (IF f THEN 50 ELSE IF g THEN 20 ELSE 0)
                       + (IF d THEN 35 ELSE 0) + (IF j THEN 25 ELSE 0)
            IN  /\ sum = PenaltySum(y[r])
                /\ score[r] = (IF sum > 100 THEN 100 ELSE sum)
                /\ 0 <= score[r] /\ score[r] <= 100
                /\ (f /\ d /\ j) => score[r] = 100

C1_Witness ==
    \E r \in Sessions :
        /\ pc[r] = "shown"
        /\ ai_score[r] = 110
        /\ score[r] = 100
        /\ Len(evidence[r]) = 3

\* C2: the verdict is a function of the score alone: score > 50 gives
\* SYNTHETIC with confidence = score, score <= 50 gives HUMAN with confidence
\* = 100 - score; 50 gives HUMAN and 51 gives SYNTHETIC.
C2_VerdictOfScore ==
    \A r \in Sessions :
        pc[r] = "shown" =>
            /\ score[r] > 50 =>
                   verdict[r] = [label |-> "SYNTHETIC", confidence |-> score[r]]
            /\ score[r] <= 50 =>
                   verdict[r] = [label |-> "HUMAN", confidence |-> 100 - score[r]]
            /\ score[r] = 50 => verdict[r].label = "HUMAN"
            /\ score[r] = 51 => verdict[r].label = "SYNTHETIC"

C2_Witness ==
    \E r \in Sessions :
        pc[r] = "shown" /\ score[r] = 50 /\ verdict[r].label = "HUMAN"

\* C3: no state is shared between requests: under every interleaving of the
\* sessions' upload and analyze steps, the score, evidence and verdict shown to a
\* session are those of the audio this session uploaded.
C3_ResultOfOwnUpload ==
    \A r \in Sessions :
        pc[r] = "shown" =>
            /\ score[r] = Clamp(PenaltySum(uploaded_file[r]))
            /\ evidence[r] = EvidenceOf(uploaded_file[r])
            /\ verdict[r] = Verdict(Clamp(PenaltySum(uploaded_file[r])))

\* C4: the frequency-cutoff tiers are mutually exclusive and exhaustive over
\* [0, Nyquist]: exactly one tier applies to the cutoff frequency, adding 50
\* below 14000 Hz, 20 from 14000 Hz to below 21000 Hz and 0 from 21000 Hz on, and
\* exactly one evidence item is appended, that of the tier.
C4_ExactlyOneTier ==
    \A r \in Sessions :
        pc[r] = "test2" =>
            LET num == threshold_idx[r] * y[r].sr
                den == 2 * HalfBins
                hard == num < 14000 * den
                susp == 14000 * den <= num /\ num < 21000 * den
                full == num >= 21000 * den
            IN  /\ 0 <= num /\ 2 * num <= y[r].sr * den
                /\ Cardinality({t \in {"hard", "susp", "full"} :
                       \/ t = "hard" /\ hard
                       \/ t = "susp" /\ susp
                       \/ t = "full" /\ full}) = 1
                /\ Len(evidence[r]) = 1
                /\ hard => ai_score[r] = 50 /\ evidence[r][1][1] = "HardFrequencyCutoff"
                /\ susp => ai_score[r] = 20 /\ evidence[r][1][1] = "SuspiciousFrequencyDrop"
                /\ full => ai_score[r] = 0 /\ evidence[r][1][1] = "FullFrequencyRange"

C4_Witness ==
    \E r \in Sessions :
        /\ pc[r] = "test2"
        /\ threshold_idx[r] * y[r].sr = 14000 * 2 * HalfBins
        /\ ai_score[r] = 20

\* C5: the evidence list is append-only during one analysis run and in test
\* order: first the frequency-cutoff item, second the silence-floor item (penalty
\* or pass), and a third item exactly when the dispersion penalty fired; the
\* returned list has 2 or 3 items and none is ever removed or reordered.
C5_EvidenceOrdered ==
    /\ [](\A r \in Sessions :
            /\ pc[r] = "test1" => evidence[r] = <<>>
            /\ pc[r] = "test2" => Len(evidence[r]) = 1
            /\ pc[r] = "test3" => Len(evidence[r]) = 2
            /\ pc[r] \in Returned \cup {"return"} =>
                /\ Len(evidence[r]) \in {2, 3}
                /\ evidence[r][1][1] \in {"HardFrequencyCutoff",
                       "SuspiciousFrequencyDrop", "FullFrequencyRange"}
                /\ evidence[r][2][1] \in {"DigitalSilence", "NaturalBackgroundNoise"}
                /\ Len(evidence[r]) = 3 <=> TooSmooth(y[r].n, y[r].crossings)
                /\ Len(evidence[r]) = 3 => evidence[r][3] = <<"TooSmooth">>)
    /\ [][\A r \in Sessions :
            pc[r] \in {"test1", "test2", "test3", "return", "verdict"} =>
                IsPrefix(evidence[r], evidence'[r])]_vars

C5_Witness ==
    \E r \in Sessions :
        /\ pc[r] = "shown"
        /\ Len(evidence[r]) = 2
        /\ ~TooSmooth(y[r].n, y[r].crossings)

\* C6: with zero total spectral energy the cutoff search does not fail: it
\* returns bin 0, a valid index, cutoff_freq is 0 and the 50-point branch is
\* taken; for every non-negative energy vector the index found is a bin index.
C6_CutoffSearchInRange ==
    \A r \in Sessions :
        /\ pc[r] # "index_error"
        /\ pc[r] \in AfterTest1 =>
            /\ threshold_idx[r] \in 0..HalfBins
            /\ (\A i \in 1..(HalfBins + 1) : y[r].energy[i] = 0) =>
                /\ threshold_idx[r] = 0
                /\ evidence[r][1] = <<"HardFrequencyCutoff", 0>>
                /\ ai_score[r] >= 50

C6_Witness ==
    \E r \in Sessions :
        /\ pc[r] = "test2"
        /\ y[r].n > 0
        /\ \A i \in 1..(HalfBins + 1) : y[r].energy[i] = 0
        /\ threshold_idx[r] = 0
        /\ ai_score[r] = 50

\* C7: a zero-length waveform is rejected by the decoding step before any of
\* the three detectors executes: no detector runs on an empty waveform and no
\* (score, evidence) is returned for it.
C7_EmptyRejectedByDecoder ==
    \A r \in Sessions :
        pc[r] \in AfterTest1 \cup {"library_error"} => y[r].n > 0

\* C8, as stated: for every sampling rate, a waveform whose 99%-energy cutoff bin
\* is the top bin (full band up to Nyquist), whose minimum frame RMS is >= 1e-6
\* and whose zero-crossing variance is >= 0.04 scores 0 and is shown HUMAN with
\* confidence 100.
C8_NaturalScoresZeroAnyRate ==
    \A r \in Sessions :
        ( /\ pc[r] = "shown"
          /\ threshold_idx[r] = HalfBins
          /\ \A i \in 1..Len(y[r].rms) : y[r].rms[i] >= 10
          /\ y[r].n > 0
          /\ 100 * y[r].crossings * (y[r].n - y[r].crossings) >= 4 * y[r].n * y[r].n )
        => /\ score[r] = 0
           /\ verdict[r] = [label |-> "HUMAN", confidence |-> 100]

\* C8, amended: the same for every sampling rate of at least 42000 Hz (Nyquist
\* at or above 21000 Hz).
C8_NaturalScoresZeroHighRate ==
    \A r \in Sessions :
        ( /\ pc[r] = "shown"
          /\ y[r].sr >= 42000
          /\ threshold_idx[r] = HalfBins
          /\ \A i \in 1..Len(y[r].rms) : y[r].rms[i] >= 10
          /\ y[r].n > 0
          /\ 100 * y[r].crossings * (y[r].n - y[r].crossings) >= 4 * y[r].n * y[r].n )
        => /\ score[r] = 0
           /\ evidence[r] = <<<<"FullFrequencyRange", y[r].sr \div 2>>,
                              <<"NaturalBackgroundNoise">>>>
           /\ verdict[r] = [label |-> "HUMAN", confidence |-> 100]

C8_Witness ==
    \E r \in Sessions :
        /\ pc[r] = "shown"
        /\ y[r].sr = 42000
        /\ threshold_idx[r] = HalfBins
        /\ \A i \in 1..Len(y[r].rms) : y[r].rms[i] >= 10
        /\ y[r].n > 0
        /\ 100 * y[r].crossings * (y[r].n - y[r].crossings) >= 4 * y[r].n * y[r].n
        /\ score[r] = 0

\* C9: within one analysis run the running score starts at 0 and never
\* decreases across the three tests, each adding a non-negative penalty; the
\* clamp to 100 is applied once, at the end, after the three tests.
C9_RunningScoreMonotone ==
    /\ [](\A r \in Sessions :
            /\ pc[r] = "test1" => ai_score[r] = 0
            /\ pc[r] = "test2" => ai_score[r] \in {0, 20, 50}
            /\ pc[r] = "return" =>
                   ai_score[r] = PenaltySum(y[r])
            /\ pc[r] \in Returned =>
                /\ ai_score[r] = PenaltySum(y[r])
                /\ score[r] = (IF ai_score[r] > 100 THEN 100 ELSE ai_score[r]))
    /\ [][\A r \in Sessions :
            pc[r] \in {"test1", "test2", "test3", "return", "verdict"} =>
                /\ ai_score'[r] >= ai_score[r]
                /\ ai_score'[r] - ai_score[r] \in {0, 20, 25, 35, 50}]_vars

C9_Witness ==
    \E r \in Sessions :
        /\ pc[r] = "return"
        /\ ai_score[r] = 110
        /\ Len(evidence[r]) = 3

\* C10: the native sampling rate is kept and a bin frequency is at most sr / 2,
\* so below 28000 Hz the frequency-cutoff test always takes the 50-point tier
\* (score >= 50, and SYNTHETIC as soon as another detector fires), and below
\* 42000 Hz it never takes the 0-point tier, so the score is never 0.
C10_LowRatePenalised ==
    \A r \in Sessions :
        /\ (pc[r] \in AfterTest1 /\ y[r].sr < 28000) =>
            /\ evidence[r][1][1] = "HardFrequencyCutoff"
            /\ ai_score[r] >= 50
        /\ (pc[r] \in AfterTest1 /\ y[r].sr < 42000) =>
            /\ evidence[r][1][1] # "FullFrequencyRange"
            /\ ai_score[r] >= 20
        /\ (pc[r] \in Returned /\ y[r].sr < 28000) => score[r] >= 50
        /\ (pc[r] \in Returned /\ y[r].sr < 42000) => score[r] # 0
        /\ (pc[r] = "shown" /\ y[r].sr < 28000 /\ Len(evidence[r]) >= 2
                /\ (evidence[r][2][1] = "DigitalSilence" \/ Len(evidence[r]) = 3)) =>
            verdict[r].label = "SYNTHETIC"

C10_Witness ==
    \E r \in Sessions :
        /\ pc[r] = "shown"
        /\ y[r].sr = 27999
        /\ threshold_idx[r] = HalfBins
        /\ evidence[r][2][1] = "DigitalSilence"
        /\ verdict[r].label = "SYNTHETIC"

====
